---- MODULE Spec2Model ----
(***************************************************************************)
(* Stock transaction ledger of the lab-inventory application (src/app.py): *)
(* the POST handlers add_transaction (issue / direct return) and           *)
(* edit_transaction (return from the edit screen) acting on the components *)
(* and transactions tables (src/models.py).                                *)
(*                                                                         *)
(* Timestamps (date, issue_date, last_updated) are written by every path   *)
(* but never read by the ledger logic; they are left out of the rows.      *)
(***************************************************************************)
EXTENDS Integers, Sequences, FiniteSets, TLC

\* ------------------------------------------------------------------ bounds
\* Quantity every component is created with.
InitQty == 2
\* Rows the transactions table may hold.
MaxTxns == 2
\* Cap on a transaction's cumulative qty_issued.
MaxIssued == 3

\* ------------------------------------------------------------ form values
None == "None"

\* The components table holds ids 1 and 2.
ComponentIds == {1, 2}

\* Decimal spellings a form field may carry.
Numerals == [n \in 0..9 |-> CASE n = 0 -> "0" [] n = 1 -> "1" [] n = 2 -> "2"
                              [] n = 3 -> "3" [] n = 4 -> "4" [] n = 5 -> "5"
                              [] n = 6 -> "6" [] n = 7 -> "7" [] n = 8 -> "8"
                              [] OTHER -> "9"]

\* The form strings Python int(s) accepts here: a numeral or a negated numeral.
IntStrings ==
    {Numerals[n] : n \in 0..9} \cup {"-" \o Numerals[n] : n \in 1..9}

\* The value int(s) gives each of them.
IntOf ==
    [s \in IntStrings |->
        IF \E n \in 0..9 : Numerals[n] = s
        THEN CHOOSE n \in 0..9 : Numerals[n] = s
        ELSE 0 - (CHOOSE n \in 1..9 : ("-" \o Numerals[n]) = s)]

\* Whether int(s) succeeds; anything else raises ValueError.
IsInt(s) == s \in IntStrings

\* Python int(s) where it succeeds.
ParseInt(s) == IntOf[s]

\* Python `a or b` on strings: the empty string is falsy.
OrElse(a, b) == IF a = "" THEN b ELSE a

\* Python `n or 0` on an integer column.
OrZero(n) == IF n = 0 THEN 0 ELSE n

CampusInputs == {""}
NotesInputs == {""}
\* Quantities typed into the forms; 9 exceeds any stock or pending quantity here.
QuantityInputs == {"1", "2", "9"}

\* Form posts with every field filled in.
FilledRequests ==
    [transaction_type : {"issue", "return"}, component_id : {"1", "2"},
     from_lab_id : {"1"}, from_campus : CampusInputs, person_name : {"asha"},
     purpose : {"demo"}, notes : NotesInputs,
     transaction_quantity : QuantityInputs]

\* A filled form, and the same form with one field left empty or spoilt.
PlainRequest ==
    [transaction_type |-> "issue", component_id |-> "1", from_lab_id |-> "1",
     from_campus |-> "", person_name |-> "asha", purpose |-> "demo",
     notes |-> "", transaction_quantity |-> "1"]

SpoiltRequests ==
    {[PlainRequest EXCEPT !.transaction_type = "adjust"],
     [PlainRequest EXCEPT !.component_id = ""],
     [PlainRequest EXCEPT !.component_id = "9"],
     [PlainRequest EXCEPT !.from_lab_id = ""],
     [PlainRequest EXCEPT !.person_name = ""],
     [PlainRequest EXCEPT !.purpose = ""]}
    \cup {[PlainRequest EXCEPT !.transaction_quantity = q] : q \in {"", "abc", "-1", "0"}}

\* The posts add_transaction receives.
AddRequests == FilledRequests \cup SpoiltRequests

\* The posts edit_transaction receives.
EditRequests ==
    [transaction_id : 1..MaxTxns, notes : NotesInputs,
     return_now : {"", "abc"} \cup QuantityInputs]

\* ------------------------------------------------------------------ state
VARIABLES
    stock,   \* components.quantity, by component id
    txns,    \* the transactions table; a row's id is its position
    last,    \* the latest accepted request: its kind and the row it wrote
    procs,   \* requests in flight, store access by store access
    mode,    \* "seq": requests run one at a time; "race": two run together
    base,    \* the tables as they stood when the two requests were let loose
    failures \* requests that died between their two commits

vars == <<stock, txns, last, procs, mode, base, failures>>

Open == {"Issued", "Partially Returned"}

\* Faulty variant of Matching: the status filter names Issued alone.
MatchingIssuedOnly(rows, cid, lab, campus, person, purpose) ==
    {i \in 1..Len(rows) :
        /\ rows[i].component_id = cid
        /\ rows[i].lab_id = lab
        /\ rows[i].campus = campus
        /\ rows[i].person_name = person
        /\ rows[i].purpose = purpose
        /\ rows[i].status = "Issued"}

\* Faulty variant of Matching: no status filter.
MatchingAnyStatus(rows, cid, lab, campus, person, purpose) ==
    {i \in 1..Len(rows) :
        /\ rows[i].component_id = cid
        /\ rows[i].lab_id = lab
        /\ rows[i].campus = campus
        /\ rows[i].person_name = person
        /\ rows[i].purpose = purpose}

\* Faulty variant of Matching: the component is left out of the filter.
MatchingAnyComponent(rows, cid, lab, campus, person, purpose) ==
    {i \in 1..Len(rows) :
        /\ rows[i].lab_id = lab
        /\ rows[i].campus = campus
        /\ rows[i].person_name = person
        /\ rows[i].purpose = purpose
        /\ rows[i].status \in Open}

\* Transaction.query.filter(component_id, lab_id, campus, person_name,
\* purpose, status in Open): the ids of the matching rows.
Matching(rows, cid, lab, campus, person, purpose) ==
    {i \in 1..Len(rows) :
        /\ rows[i].component_id = cid
        /\ rows[i].lab_id = lab
        /\ rows[i].campus = campus
        /\ rows[i].person_name = person
        /\ rows[i].purpose = purpose
        /\ rows[i].status \in Open}

\* .first(): the row with the least id, 0 standing for no row.
First(ids) == IF ids = {} THEN 0 ELSE CHOOSE i \in ids : \A j \in ids : i <= j

\* Faulty variant of MergedStatus: an issue always puts the row back to Issued.
MergedStatusAlwaysIssued(qty_returned, pending) == "Issued"

\* Status written by the issue path when it merges into an open row.
MergedStatus(qty_returned, pending) ==
    IF qty_returned = 0 THEN "Issued"
    ELSE IF pending <= 0 THEN "Completed" ELSE "Partially Returned"

\* Faulty variant of ReturnedStatus: < in place of <=.
ReturnedStatusStrict(new_pending) ==
    IF new_pending < 0 THEN "Completed" ELSE "Partially Returned"

\* Status written by both return paths.
ReturnedStatus(new_pending) ==
    IF new_pending <= 0 THEN "Completed" ELSE "Partially Returned"

\* What a handler leaves behind: its answer, the row it wrote (0: none), the
\* tables.
Outcome(result, tid, s, t) == [result |-> result, tid |-> tid, stock |-> s, txns |-> t]

\* -------------------------------------------------------------- handlers
\* Faulty variant of MergedRow: pending_qty is left as it was.
MergedRowStalePending(e, qty, current_stock, notes) ==
    LET new_issued == e.qty_issued + qty
        qty_returned == e.qty_returned
        pending == new_issued - qty_returned
    IN [e EXCEPT !.qty_issued = new_issued,
                 !.status = MergedStatus(qty_returned, pending),
                 !.quantity_before = current_stock,
                 !.quantity_after = current_stock - qty,
                 !.transaction_quantity = qty,
                 !.last_action = "issue",
                 !.notes = OrElse(notes, e.notes)]

\* The row the issue path writes over an open row it matched.
MergedRow(e, qty, current_stock, notes) ==
    LET new_issued == e.qty_issued + qty
        qty_returned == e.qty_returned
        pending == new_issued - qty_returned
    IN [e EXCEPT !.qty_issued = new_issued,
                 !.pending_qty = pending,
                 !.status = MergedStatus(qty_returned, pending),
                 !.quantity_before = current_stock,
                 !.quantity_after = current_stock - qty,
                 !.transaction_quantity = qty,
                 !.last_action = "issue",
                 !.notes = OrElse(notes, e.notes)]

\* The row the issue path inserts when no open row matches.
NewRow(cid, lab_oid, campus, person_name, purpose, qty, current_stock, notes) ==
    [component_id |-> cid, lab_id |-> lab_oid, campus |-> campus,
     person_name |-> person_name, purpose |-> purpose,
     qty_issued |-> qty, qty_returned |-> 0, pending_qty |-> qty,
     status |-> "Issued",
     quantity_before |-> current_stock, quantity_after |-> current_stock - qty,
     transaction_quantity |-> qty, last_action |-> "issue", notes |-> notes]

\* Faulty variant of ReturnNotes: the new text takes the place of the old.
ReturnNotesOverwrite(old, notes) ==
    IF notes # "" THEN "Return: " \o notes ELSE OrElse(old, "")

\* Text a return leaves in the notes column.
ReturnNotes(old, notes) ==
    OrElse(old, "") \o (IF notes # "" THEN "\nReturn: " \o notes ELSE "")

\* Faulty variant of ReturnedRow: pending_qty is left as it was.
ReturnedRowStalePending(e, qty, current_stock, notes) ==
    LET new_returned == e.qty_returned + qty
        new_pending == e.qty_issued - new_returned
    IN [e EXCEPT !.qty_returned = new_returned,
                 !.status = ReturnedStatus(new_pending),
                 !.quantity_before = current_stock,
                 !.quantity_after = current_stock + qty,
                 !.transaction_quantity = qty,
                 !.last_action = "return",
                 !.notes = ReturnNotes(e.notes, notes)]

\* The row the direct return form writes over the open row it matched.
ReturnedRow(e, qty, current_stock, notes) ==
    LET new_returned == e.qty_returned + qty
        new_pending == e.qty_issued - new_returned
    IN [e EXCEPT !.qty_returned = new_returned,
                 !.pending_qty = new_pending,
                 !.status = ReturnedStatus(new_pending),
                 !.quantity_before = current_stock,
                 !.quantity_after = current_stock + qty,
                 !.transaction_quantity = qty,
                 !.last_action = "return",
                 !.notes = ReturnNotes(e.notes, notes)]

\* Faulty variant of EditReturnedRow: the snapshot of the stock before the
\* return is not refreshed.
EditReturnedRowOldSnapshot(e, return_now, current_stock, notes) ==
    LET new_returned == e.qty_returned + return_now
        new_pending == e.qty_issued - new_returned
    IN [e EXCEPT !.qty_returned = new_returned,
                 !.pending_qty = new_pending,
                 !.status = ReturnedStatus(new_pending),
                 !.quantity_after = current_stock + return_now,
                 !.transaction_quantity = return_now,
                 !.last_action = "return",
                 !.notes = ReturnNotes(e.notes, notes)]

\* The row the edit screen writes over the open row it matched.
EditReturnedRow(e, return_now, current_stock, notes) ==
    LET new_returned == e.qty_returned + return_now
        new_pending == e.qty_issued - new_returned
    IN [e EXCEPT !.qty_returned = new_returned,
                 !.pending_qty = new_pending,
                 !.status = ReturnedStatus(new_pending),
                 !.quantity_before = current_stock,
                 !.quantity_after = current_stock + return_now,
                 !.transaction_quantity = return_now,
                 !.last_action = "return",
                 !.notes = ReturnNotes(e.notes, notes)]

\* Faulty variant of CanIssue: off by one.
CanIssueOffByOne(qty, current_stock) == ~(qty > current_stock + 1)

\* The stock check of the issue path.
CanIssue(qty, current_stock) == ~(qty > current_stock)

\* Faulty variant of ReturnCheck: the comparison with pending is missing.
ReturnCheckNoLimit(e, qty) ==
    LET pending == e.qty_issued - e.qty_returned
    IN IF pending <= 0 THEN "NothingPendingToReturn" ELSE "ok"

\* Faulty variant of ReturnCheck: one more than is pending is let through.
ReturnCheckOffByOne(e, qty) ==
    LET pending == e.qty_issued - e.qty_returned
    IN IF pending <= 0 THEN "NothingPendingToReturn"
       ELSE IF qty > pending + 1 THEN "ReturnExceedsPending"
       ELSE "ok"

\* The pending checks of the return paths: the error raised, or "ok".
ReturnCheck(e, qty) ==
    LET pending == e.qty_issued - e.qty_returned
    IN IF pending <= 0 THEN "NothingPendingToReturn"
       ELSE IF qty > pending THEN "ReturnExceedsPending"
       ELSE "ok"

\* transaction_type == "issue".
IssuePath(s, t, cid, lab_oid, campus, person_name, purpose, qty, notes) ==
    LET current_stock == OrZero(s[cid])
        existing == First(Matching(t, cid, lab_oid, campus, person_name, purpose))
    IN IF ~CanIssue(qty, current_stock)
       THEN Outcome("InsufficientStock", 0, s, t)
       ELSE IF existing # 0
       THEN Outcome("ok", existing,
                    [s EXCEPT ![cid] = current_stock - qty],
                    [t EXCEPT ![existing] =
                        MergedRow(t[existing], qty, current_stock, notes)])
       ELSE Outcome("ok", Len(t) + 1,
                    [s EXCEPT ![cid] = current_stock - qty],
                    Append(t, NewRow(cid, lab_oid, campus, person_name,
                                     purpose, qty, current_stock, notes)))

\* Faulty variant of ReturnPath: the row is written before the pending checks run.
ReturnPathWritesFirst(s, t, cid, lab_oid, campus, person_name, purpose, qty, notes) ==
    LET current_stock == OrZero(s[cid])
        existing == First(Matching(t, cid, lab_oid, campus, person_name, purpose))
        written == [t EXCEPT ![existing] =
                        ReturnedRow(t[existing], qty, current_stock, notes)]
    IN IF existing = 0
       THEN Outcome("NoOpenTransaction", 0, s, t)
       ELSE IF ReturnCheck(t[existing], qty) # "ok"
       THEN Outcome(ReturnCheck(t[existing], qty), 0, s, written)
       ELSE Outcome("ok", existing, [s EXCEPT ![cid] = current_stock + qty], written)

\* Faulty variant of ReturnPath: the stock is given back all the row had
\* pending, whatever quantity came in.
ReturnPathRestoresPending(s, t, cid, lab_oid, campus, person_name, purpose, qty, notes) ==
    LET current_stock == OrZero(s[cid])
        existing == First(Matching(t, cid, lab_oid, campus, person_name, purpose))
    IN IF existing = 0
       THEN Outcome("NoOpenTransaction", 0, s, t)
       ELSE IF ReturnCheck(t[existing], qty) # "ok"
       THEN Outcome(ReturnCheck(t[existing], qty), 0, s, t)
       ELSE Outcome("ok", existing,
                    [s EXCEPT ![cid] = current_stock + t[existing].pending_qty],
                    [t EXCEPT ![existing] =
                        ReturnedRow(t[existing], qty, current_stock, notes)])

\* transaction_type == "return".
ReturnPath(s, t, cid, lab_oid, campus, person_name, purpose, qty, notes) ==
    LET current_stock == OrZero(s[cid])
        existing == First(Matching(t, cid, lab_oid, campus, person_name, purpose))
    IN IF existing = 0
       THEN Outcome("NoOpenTransaction", 0, s, t)
       ELSE IF ReturnCheck(t[existing], qty) # "ok"
       THEN Outcome(ReturnCheck(t[existing], qty), 0, s, t)
       ELSE Outcome("ok", existing,
                    [s EXCEPT ![cid] = current_stock + qty],
                    [t EXCEPT ![existing] =
                        ReturnedRow(t[existing], qty, current_stock, notes)])

\* Field validation of add_transaction, in the order the handler applies it:
\* the rejection, or "ok".
Validate(req) ==
    LET transaction_quantity_raw == OrElse(req.transaction_quantity, "0")
    IN IF ~IsInt(transaction_quantity_raw) THEN "InvalidQuantity"
       ELSE IF ParseInt(transaction_quantity_raw) <= 0 THEN "InvalidQuantity"
       ELSE IF req.from_lab_id = "" THEN "MissingField"
       ELSE IF req.component_id = "" THEN "MissingField"
       ELSE IF req.person_name = "" \/ req.purpose = "" THEN "MissingField"
       ELSE IF ParseInt(req.component_id) \notin ComponentIds THEN "ComponentNotFound"
       ELSE "ok"

\* POST /transactions/add.
AddTransaction(s, t, req) ==
    LET qty == ParseInt(OrElse(req.transaction_quantity, "0"))
        cid == ParseInt(req.component_id)
        lab_oid == ParseInt(req.from_lab_id)
        campus == OrElse(req.from_campus, None)
    IN IF Validate(req) # "ok" THEN Outcome(Validate(req), 0, s, t)
       ELSE IF req.transaction_type = "issue"
       THEN IssuePath(s, t, cid, lab_oid, campus, req.person_name,
                      req.purpose, qty, req.notes)
       ELSE IF req.transaction_type = "return"
       THEN ReturnPath(s, t, cid, lab_oid, campus, req.person_name,
                       req.purpose, qty, req.notes)
       ELSE Outcome("InvalidType", 0, s, t)

\* POST /transactions/<transaction_id>/edit.
EditTransaction(s, t, req) ==
    LET return_now_raw == OrElse(req.return_now, "0")
        return_now == ParseInt(return_now_raw)
    IN IF req.transaction_id \notin 1..Len(t)
       THEN Outcome("TransactionNotFound", 0, s, t)
       ELSE IF ~IsInt(return_now_raw) THEN Outcome("InvalidQuantity", 0, s, t)
       ELSE IF return_now <= 0 THEN Outcome("InvalidQuantity", 0, s, t)
       ELSE
         LET txn == t[req.transaction_id]
             cid == txn.component_id
             current_stock == OrZero(s[cid])
             existing == First(Matching(t, cid, txn.lab_id, txn.campus,
                                        txn.person_name, txn.purpose))
         IN IF existing = 0
            THEN Outcome("NoOpenTransaction", 0, s, t)
            ELSE IF ReturnCheck(t[existing], return_now) # "ok"
            THEN Outcome(ReturnCheck(t[existing], return_now), 0, s, t)
            ELSE Outcome("ok", existing,
                         [s EXCEPT ![cid] = current_stock + return_now],
                         [t EXCEPT ![existing] =
                             EditReturnedRow(t[existing], return_now,
                                             current_stock, req.notes)])

\* The requests that may be in flight together.
Procs == {1, 2}

\* A request slot with nothing in flight.
Idle ==
    [pc |-> "idle", form |-> "none", req |-> PlainRequest, op |-> "none",
     cid |-> 1, lab |-> 1, campus |-> None, person |-> "", purpose |-> "",
     qty |-> 0, notes |-> "", cur |-> 0, loaded |-> <<>>, existing |-> 0,
     seen |-> <<>>, row |-> <<>>]

\* The model's caps on the tables.
WithinBounds(t) ==
    /\ Len(t) <= MaxTxns
    /\ \A i \in 1..Len(t) : t[i].qty_issued <= MaxIssued

Init ==
    /\ stock = [c \in ComponentIds |-> InitQty]
    /\ txns = <<>>
    /\ last = [op |-> "none", tid |-> 0]
    /\ procs = [p \in Procs |-> Idle]
    /\ mode = "seq"
    /\ base = [stock |-> stock, txns |-> txns]
    /\ failures = 0

\* One request to add_transaction, start to finish.
AddTransactionPost ==
    \E req \in AddRequests :
        LET o == AddTransaction(stock, txns, req)
        IN /\ mode = "seq"
           /\ \A p \in Procs : procs[p].pc \in {"idle", "done"}
           /\ WithinBounds(o.txns)
           /\ stock' = o.stock
           /\ txns' = o.txns
           /\ last' = IF o.result = "ok"
                       THEN [op |-> req.transaction_type, tid |-> o.tid]
                       ELSE last
           /\ UNCHANGED <<procs, mode, base, failures>>

\* One request to edit_transaction, start to finish.
EditTransactionPost ==
    \E req \in EditRequests :
        LET o == EditTransaction(stock, txns, req)
        IN /\ mode = "seq"
           /\ \A p \in Procs : procs[p].pc \in {"idle", "done"}
           /\ WithinBounds(o.txns)
           /\ stock' = o.stock
           /\ txns' = o.txns
           /\ last' = IF o.result = "ok"
                       THEN [op |-> "edit", tid |-> o.tid]
                       ELSE last
           /\ UNCHANGED <<procs, mode, base, failures>>

Next == AddTransactionPost \/ EditTransactionPost

Spec == Init /\ [][Next]_vars

\* ------------------------------------------------------ posts with notes
\* Notes typed into the forms, as they stand once trimmed.
NotesTexts == {"", "ok", "no"}

\* Longest text the model lets the notes column grow to: notes given at
\* issue and one return appended.
MaxNotesLen == 13

\* The model's caps where notes are followed: one row fewer, and the notes
\* column no longer than MaxNotesLen.
NotesWithinBounds(t) ==
    /\ Len(t) < MaxTxns
    /\ \A i \in 1..Len(t) : Len(t[i].notes) <= MaxNotesLen

\* Posts for one component and one borrower, with or without notes.
NotesAddRequests ==
    [transaction_type : {"issue", "return"}, component_id : {"1"},
     from_lab_id : {"1"}, from_campus : CampusInputs, person_name : {"asha"},
     purpose : {"demo"}, notes : NotesTexts,
     transaction_quantity : {"1", "2"}]

NotesEditRequests ==
    [transaction_id : 1..MaxTxns, notes : NotesTexts, return_now : {"1", "2"}]

\* One request to add_transaction, start to finish, notes filled in or not.
NotesAddPost ==
    \E req \in NotesAddRequests :
        LET o == AddTransaction(stock, txns, req)
        IN /\ mode = "seq"
           /\ \A p \in Procs : procs[p].pc \in {"idle", "done"}
           /\ WithinBounds(o.txns)
           /\ NotesWithinBounds(o.txns)
           /\ stock' = o.stock
           /\ txns' = o.txns
           /\ last' = IF o.result = "ok"
                       THEN [op |-> req.transaction_type, tid |-> o.tid]
                       ELSE last
           /\ UNCHANGED <<procs, mode, base, failures>>

\* One request to edit_transaction, start to finish, notes filled in or not.
NotesEditPost ==
    \E req \in NotesEditRequests :
        LET o == EditTransaction(stock, txns, req)
        IN /\ mode = "seq"
           /\ \A p \in Procs : procs[p].pc \in {"idle", "done"}
           /\ WithinBounds(o.txns)
           /\ NotesWithinBounds(o.txns)
           /\ stock' = o.stock
           /\ txns' = o.txns
           /\ last' = IF o.result = "ok"
                       THEN [op |-> "edit", tid |-> o.tid]
                       ELSE last
           /\ UNCHANGED <<procs, mode, base, failures>>

NotesNext == NotesAddPost \/ NotesEditPost

SpecNotes == Init /\ [][NotesNext]_vars

\* ------------------------------------------------- the component screens
\* Components the model lets the table hold.
MaxComponents == 3

\* The posts add_component and edit_component receive: quantity empty, not a
\* number, negative, or positive; a required field filled in or left out.
ComponentRequests ==
    [name : {"", "led"}, category_id : {"1"}, lab_id : {"1"},
     quantity : {"", "abc", "-1", "1"}]

\* POST /components/add: int() runs before the required fields are looked at
\* and outside any try; the quantity is stored as parsed.
AddComponent(s, req) ==
    LET quantity_raw == OrElse(req.quantity, "0")
    IN IF ~IsInt(quantity_raw) THEN [result |-> "ValueError", stock |-> s]
       ELSE IF req.name = "" \/ req.category_id = "" \/ req.lab_id = ""
       THEN [result |-> "MissingField", stock |-> s]
       ELSE [result |-> "ok", stock |-> Append(s, ParseInt(quantity_raw))]

\* POST /components/<component_id>/edit.
EditComponent(s, component_id, req) ==
    LET quantity_raw == OrElse(req.quantity, "0")
    IN IF component_id \notin DOMAIN s
       THEN [result |-> "ComponentNotFound", stock |-> s]
       ELSE IF ~IsInt(quantity_raw) THEN [result |-> "ValueError", stock |-> s]
       ELSE IF req.name = "" \/ req.category_id = "" \/ req.lab_id = ""
       THEN [result |-> "MissingField", stock |-> s]
       ELSE [result |-> "ok",
             stock |-> [s EXCEPT ![component_id] = ParseInt(quantity_raw)]]

\* One request to add_component, start to finish.
AddComponentPost ==
    \E req \in ComponentRequests :
        LET o == AddComponent(stock, req)
        IN /\ mode = "seq"
           /\ \A p \in Procs : procs[p].pc \in {"idle", "done"}
           /\ Len(o.stock) <= MaxComponents
           /\ stock' = o.stock
           /\ last' = IF o.result = "ok"
                       THEN [op |-> "add_component", tid |-> 0]
                       ELSE last
           /\ UNCHANGED <<txns, procs, mode, base, failures>>

\* One request to edit_component, start to finish.
EditComponentPost ==
    \E component_id \in 1..MaxComponents, req \in ComponentRequests :
        LET o == EditComponent(stock, component_id, req)
        IN /\ mode = "seq"
           /\ \A p \in Procs : procs[p].pc \in {"idle", "done"}
           /\ stock' = o.stock
           /\ last' = IF o.result = "ok"
                       THEN [op |-> "edit_component", tid |-> 0]
                       ELSE last
           /\ UNCHANGED <<txns, procs, mode, base, failures>>

\* The component screens beside the transaction screens, the rows kept to
\* one fewer than the cap.
ComponentsNext ==
    \/ AddComponentPost
    \/ EditComponentPost
    \/ AddTransactionPost /\ Len(txns') < MaxTxns
    \/ EditTransactionPost /\ Len(txns') < MaxTxns

SpecComponents == Init /\ [][ComponentsNext]_vars

\* ------------------------------------------- one store access at a time
\* Failures the model lets happen between a request's two commits.
MaxFailures == 1

\* The same handlers, one store access per step. The session keeps what it
\* has loaded (the identity map): a row read again by a later query keeps the
\* attribute values of its first load.

\* The post a slot remembers: kept while two requests race, so that the
\* outcome can be set beside the serial orders of the same two posts.
Kept(req) == IF mode = "race" THEN req ELSE PlainRequest

\* A slot whose request has been answered.
Finished(q) == [Idle EXCEPT !.pc = "done", !.form = q.form, !.req = q.req]

\* add_transaction up to its query: the components and their rows are loaded,
\* the form is validated, the issue path checks the stock it loaded.
BeginAdd(p, req) ==
    LET cid == ParseInt(req.component_id)
        qty == ParseInt(OrElse(req.transaction_quantity, "0"))
        current_stock == OrZero(stock[cid])
        rejected ==
            \/ Validate(req) # "ok"
            \/ req.transaction_type \notin {"issue", "return"}
            \/ req.transaction_type = "issue" /\ ~CanIssue(qty, current_stock)
    IN procs' = [procs EXCEPT ![p] =
          IF rejected
          THEN [Idle EXCEPT !.pc = "done", !.form = "add", !.req = Kept(req)]
          ELSE [Idle EXCEPT !.pc = "loaded", !.form = "add", !.req = Kept(req),
                            !.op = req.transaction_type, !.cid = cid,
                            !.lab = ParseInt(req.from_lab_id),
                            !.campus = OrElse(req.from_campus, None),
                            !.person = req.person_name,
                            !.purpose = req.purpose,
                            !.qty = qty, !.notes = req.notes,
                            !.cur = current_stock, !.loaded = txns]]

\* edit_transaction up to its query: the row and its component are loaded,
\* return_now is validated.
BeginEdit(p, req) ==
    LET return_now_raw == OrElse(req.return_now, "0")
        rejected ==
            \/ req.transaction_id \notin 1..Len(txns)
            \/ ~IsInt(return_now_raw)
            \/ ParseInt(return_now_raw) <= 0
        txn == txns[req.transaction_id]
    IN procs' = [procs EXCEPT ![p] =
          IF rejected
          THEN [Idle EXCEPT !.pc = "done", !.form = "edit"]
          ELSE [Idle EXCEPT !.pc = "loaded", !.form = "edit", !.op = "edit",
                            !.cid = txn.component_id, !.lab = txn.lab_id,
                            !.campus = txn.campus, !.person = txn.person_name,
                            !.purpose = txn.purpose,
                            !.qty = ParseInt(return_now_raw),
                            !.notes = req.notes,
                            !.cur = OrZero(stock[txn.component_id]),
                            !.loaded = txns]]

\* The query for the open row of the key, the checks on it, and the attribute
\* values the handler assigns. The filter runs on the table as it stands; a
\* row the session already holds keeps the values it was loaded with.
Query(p) ==
    LET q == procs[p]
        existing == First(Matching(txns, q.cid, q.lab, q.campus, q.person, q.purpose))
        e == IF existing <= Len(q.loaded) THEN q.loaded[existing] ELSE txns[existing]
    IN /\ q.pc = "loaded"
       /\ procs' = [procs EXCEPT ![p] =
             IF q.op = "issue"
             THEN IF existing # 0
                  THEN [q EXCEPT !.pc = "matched", !.existing = existing, !.seen = e,
                                 !.row = MergedRow(e, q.qty, q.cur, q.notes)]
                  ELSE [q EXCEPT !.pc = "matched", !.existing = 0,
                                 !.row = NewRow(q.cid, q.lab, q.campus, q.person,
                                                q.purpose, q.qty, q.cur, q.notes)]
             ELSE IF existing = 0 THEN Finished(q)
             ELSE IF ReturnCheck(e, q.qty) # "ok" THEN Finished(q)
             ELSE [q EXCEPT !.pc = "matched", !.existing = existing, !.seen = e,
                            !.row = IF q.op = "edit"
                                    THEN EditReturnedRow(e, q.qty, q.cur, q.notes)
                                    ELSE ReturnedRow(e, q.qty, q.cur, q.notes)]]
       /\ UNCHANGED <<stock, txns, last, mode, base, failures>>

\* The UPDATE a commit flushes for a row: the attributes whose assigned value
\* differs from the loaded one.
Flush(stored, seen, row) ==
    [f \in DOMAIN stored |-> IF row[f] # seen[f] THEN row[f] ELSE stored[f]]

\* The first db.session.commit(): the row is inserted or updated.
CommitTxn(p) ==
    LET q == procs[p]
        written == IF q.existing = 0
                   THEN Append(txns, q.row)
                   ELSE [txns EXCEPT ![q.existing] = Flush(txns[q.existing], q.seen, q.row)]
    IN /\ q.pc = "matched"
       /\ mode = "seq" => WithinBounds(written)
       /\ txns' = written
       /\ procs' = [procs EXCEPT ![p].pc = "txn_committed",
                                 ![p].existing = IF q.existing = 0
                                                 THEN Len(txns) + 1 ELSE q.existing]
       /\ UNCHANGED <<stock, last, mode, base, failures>>

\* The second db.session.commit(): component.quantity = quantity_after.
CommitComponent(p) ==
    LET q == procs[p]
    IN /\ q.pc = "txn_committed"
       /\ stock' = [stock EXCEPT ![q.cid] = q.row.quantity_after]
       /\ last' = [op |-> q.op, tid |-> q.existing]
       /\ procs' = [procs EXCEPT ![p] = Finished(q)]
       /\ UNCHANGED <<txns, mode, base, failures>>

\* The request dies after its first commit: the second commit raises, or the
\* server stops; nothing undoes the row already committed.
Fail(p) ==
    /\ procs[p].pc = "txn_committed"
    /\ failures < MaxFailures
    /\ failures' = failures + 1
    /\ procs' = [procs EXCEPT ![p] = Finished(procs[p])]
    /\ UNCHANGED <<stock, txns, last, mode, base>>

\* Requests served one after another, each store access a step.
StepBegin ==
    /\ mode = "seq"
    /\ procs[1].pc \in {"idle", "done"}
    /\ \/ \E req \in AddRequests : BeginAdd(1, req)
       \/ \E req \in EditRequests : BeginEdit(1, req)
    /\ UNCHANGED <<stock, txns, last, mode, base, failures>>

StepsNext ==
    \/ StepBegin
    \/ Query(1)
    \/ CommitTxn(1)
    \/ CommitComponent(1)
    \/ Fail(1)

SpecSteps == Init /\ [][StepsNext]_vars

\* The posts two clients send together: issues and returns on component 1.
RaceRequests == {r \in FilledRequests : r.component_id = "1"}

\* Two requests are let loose on the tables as they stand.
StartRace ==
    /\ mode = "seq"
    /\ mode' = "race"
    /\ base' = [stock |-> stock, txns |-> txns]
    /\ UNCHANGED <<stock, txns, last, procs, failures>>

RaceBegin(p) ==
    /\ mode = "race"
    /\ procs[p].pc = "idle"
    /\ \E req \in RaceRequests : BeginAdd(p, req)
    /\ UNCHANGED <<stock, txns, last, mode, base, failures>>

RaceStep(p) ==
    /\ mode = "race"
    /\ \/ Query(p)
       \/ CommitTxn(p)
       \/ CommitComponent(p)

ConcNext ==
    \/ AddTransactionPost
    \/ EditTransactionPost
    \/ StartRace
    \/ \E p \in Procs : RaceBegin(p)
    \/ \E p \in Procs : RaceStep(p)

SpecConc == Init /\ [][ConcNext]_vars

\* ------------------------------------------------------------ properties
IssueRequests == {r \in FilledRequests : r.transaction_type = "issue"}
ReturnRequests == {r \in FilledRequests : r.transaction_type = "return"}

\* The matching key a form post names, and the key a row carries.
RequestKey(req) ==
    <<ParseInt(req.component_id), ParseInt(req.from_lab_id),
      IF req.from_campus = "" THEN None ELSE req.from_campus,
      req.person_name, req.purpose>>
RowKey(row) ==
    <<row.component_id, row.lab_id, row.campus, row.person_name, row.purpose>>

\* Ids of the rows that carry key k, by status.
OpenWithKey(k) ==
    {i \in 1..Len(txns) : RowKey(txns[i]) = k /\ txns[i].status \in Open}
CompletedWithKey(k) ==
    {i \in 1..Len(txns) : RowKey(txns[i]) = k /\ txns[i].status = "Completed"}

\* C1: an accepted issue of q against stock s leaves the component at exactly
\* s - q, which is never negative; an issue with q > s is refused and writes
\* nothing.
IssueDecrementsStock ==
    \A req \in IssueRequests :
        LET c == ParseInt(req.component_id)
            q == ParseInt(req.transaction_quantity)
            o == AddTransaction(stock, txns, req)
        IN /\ o.result = "ok" => o.stock[c] = stock[c] - q /\ o.stock[c] >= 0
           /\ q > stock[c] => o.result # "ok" /\ o.stock = stock /\ o.txns = txns

\* C1 witness: the latest accepted request was an issue that took stock from
\* its component.
IssueHasActed ==
    /\ last.op = "issue"
    /\ txns[last.tid].last_action = "issue"
    /\ stock[txns[last.tid].component_id] < InitQty
    /\ stock[txns[last.tid].component_id] = txns[last.tid].quantity_after

\* C2: every row has pending_qty = qty_issued - qty_returned.
PendingIsDifference ==
    \A i \in 1..Len(txns) :
        txns[i].pending_qty = txns[i].qty_issued - txns[i].qty_returned

\* C2 witness: a row that was issued, partly returned, and then issued again.
MergedAfterPartialReturn ==
    \E i \in 1..Len(txns) :
        /\ txns[i].qty_returned > 0
        /\ txns[i].pending_qty > 0
        /\ txns[i].last_action = "issue"

\* C3: no two open rows carry the same matching key.
OneOpenPerKey ==
    \A i, j \in 1..Len(txns) :
        (i # j /\ txns[i].status \in Open /\ txns[j].status \in Open)
            => RowKey(txns[i]) # RowKey(txns[j])

\* C3 witness: a key with a Completed row and, after it, an open row.
KeyReusedAfterCompletion ==
    \E i, j \in 1..Len(txns) :
        /\ i < j
        /\ RowKey(txns[i]) = RowKey(txns[j])
        /\ txns[i].status = "Completed"
        /\ txns[j].status \in Open

\* C4: an issue whose key has an open row adds its quantity to that row and
\* inserts nothing; otherwise it inserts a fresh Issued row with qty_issued =
\* pending_qty = quantity and qty_returned = 0, and the rows already there
\* (the Completed ones of the key among them) stay as they were.
IssueMergesOrCreates ==
    \A req \in IssueRequests :
        LET k == RequestKey(req)
            q == ParseInt(req.transaction_quantity)
            o == AddTransaction(stock, txns, req)
        IN o.result = "ok" =>
            IF OpenWithKey(k) # {}
            THEN /\ Len(o.txns) = Len(txns)
                 /\ \A i \in OpenWithKey(k) :
                        o.txns[i].qty_issued = txns[i].qty_issued + q
            ELSE /\ Len(o.txns) = Len(txns) + 1
                 /\ RowKey(o.txns[Len(o.txns)]) = k
                 /\ o.txns[Len(o.txns)].qty_issued = q
                 /\ o.txns[Len(o.txns)].qty_returned = 0
                 /\ o.txns[Len(o.txns)].pending_qty = q
                 /\ o.txns[Len(o.txns)].status = "Issued"
                 /\ \A i \in 1..Len(txns) : o.txns[i] = txns[i]

\* C4 witness: the latest accepted issue inserted a fresh row although a
\* Completed row of the same key was there.
FreshRowBesideCompleted ==
    /\ last.op = "issue"
    /\ last.tid = Len(txns)
    /\ txns[last.tid].qty_issued = txns[last.tid].transaction_quantity
    /\ CompletedWithKey(RowKey(txns[last.tid])) # {}

\* C5: a request answered with a domain error leaves stock and rows as they
\* were, whichever form it came through.
RejectionWritesNothing ==
    /\ \A req \in AddRequests :
          LET o == AddTransaction(stock, txns, req)
          IN o.result # "ok" => o.stock = stock /\ o.txns = txns
    /\ \A req \in EditRequests :
          LET o == EditTransaction(stock, txns, req)
          IN o.result # "ok" => o.stock = stock /\ o.txns = txns

\* C5 witness: after a partial return, a return of more than is pending is
\* refused, as is an issue of more than is in stock.
RejectionsArise ==
    /\ \E i \in 1..Len(txns) : txns[i].status = "Partially Returned"
    /\ \E req \in ReturnRequests :
          AddTransaction(stock, txns, req).result = "ReturnExceedsPending"
    /\ \E req \in IssueRequests :
          AddTransaction(stock, txns, req).result = "InsufficientStock"
    /\ \E req \in EditRequests :
          EditTransaction(stock, txns, req).result = "ReturnExceedsPending"

\* C8: status moves only along the edges of the state machine. A row is born
\* Issued; an Issued row stays Issued (nothing returned yet) or a return makes
\* it Partially Returned or Completed; a Partially Returned row stays so or
\* becomes Completed; a Completed row keeps its status and its three counters.
StatusFollowsEdges ==
    [][/\ Len(txns') >= Len(txns)
       /\ \A i \in 1..Len(txns') :
            IF i > Len(txns)
            THEN txns'[i].status = "Issued"
            ELSE CASE txns[i].status = "Issued" ->
                        \/ txns'[i].status = "Issued" /\ txns'[i].qty_returned = 0
                        \/ /\ txns'[i].status \in {"Partially Returned", "Completed"}
                           /\ txns'[i].last_action = "return"
                   [] txns[i].status = "Partially Returned" ->
                        txns'[i].status \in {"Partially Returned", "Completed"}
                   [] OTHER ->
                        /\ txns[i].status = "Completed"
                        /\ txns'[i].status = "Completed"
                        /\ txns'[i].qty_issued = txns[i].qty_issued
                        /\ txns'[i].qty_returned = txns[i].qty_returned
                        /\ txns'[i].pending_qty = txns[i].pending_qty]_vars

\* C8 witness: a Completed row, and a later issue under its key accepted, so
\* the Completed row has been passed over by an issue that matched its key.
IssuedPastCompleted ==
    \E i \in 1..Len(txns) :
        /\ txns[i].status = "Completed"
        /\ last.op = "issue"
        /\ last.tid # i
        /\ RowKey(txns[last.tid]) = RowKey(txns[i])

\* The status the counters call for.
StatusOf(qty_issued, qty_returned) ==
    IF qty_returned = 0 THEN "Issued"
    ELSE IF qty_issued - qty_returned <= 0 THEN "Completed"
    ELSE "Partially Returned"

\* C9: every row's status is the one its counters call for.
StatusMatchesCounters ==
    \A i \in 1..Len(txns) :
        txns[i].status = StatusOf(txns[i].qty_issued, txns[i].qty_returned)

\* C9 witness: a row the edit screen has just completed, next to an open row.
EditCompletedBesideOpen ==
    /\ last.op = "edit"
    /\ txns[last.tid].status = "Completed"
    /\ \E j \in 1..Len(txns) : txns[j].status \in Open

\* C10: qty_issued and qty_returned never decrease, and 0 <= qty_returned <=
\* qty_issued in every state a step leads to.
CountersMonotone ==
    [][/\ \A i \in 1..Len(txns) :
            /\ i <= Len(txns')
            /\ txns'[i].qty_issued >= txns[i].qty_issued
            /\ txns'[i].qty_returned >= txns[i].qty_returned
       /\ \A i \in 1..Len(txns') :
            /\ 0 <= txns'[i].qty_returned
            /\ txns'[i].qty_returned <= txns'[i].qty_issued]_vars

\* C10 witness: a row whose two counters have both grown more than once and
\* met: issued in two steps, returned in two steps.
CountersGrewAndMet ==
    \E i \in 1..Len(txns) :
        /\ txns[i].qty_issued = MaxIssued
        /\ txns[i].qty_returned = txns[i].qty_issued
        /\ txns[i].transaction_quantity < txns[i].qty_returned

\* pending_qty summed over the rows of component c.
RECURSIVE PendingSum(_, _)
PendingSum(rows, c) ==
    IF rows = <<>> THEN 0
    ELSE (IF Head(rows).component_id = c THEN Head(rows).pending_qty ELSE 0)
         + PendingSum(Tail(rows), c)

\* The tables two posts leave when the first is served to its end before the
\* second starts.
SerialOutcome(b, r1, r2) ==
    LET o1 == AddTransaction(b.stock, b.txns, r1)
        o2 == AddTransaction(o1.stock, o1.txns, r2)
    IN [stock |-> o2.stock, txns |-> o2.txns]

\* C6: two requests on one component running together leave the tables as
\* one of their two serial orders would, and stock is never negative on the
\* way.
RaceIsSerializable ==
    /\ \A c \in ComponentIds : stock[c] >= 0
    /\ (mode = "race" /\ \A p \in Procs : procs[p].pc = "done")
          => [stock |-> stock, txns |-> txns]
                \in {SerialOutcome(base, procs[1].req, procs[2].req),
                     SerialOutcome(base, procs[2].req, procs[1].req)}

\* C7: with requests served one at a time, every committed state has the
\* rows and the stock agree: what is out on loan plus what is in stock is what
\* the component started with. A row committed without its stock change (or
\* the reverse) breaks the sum.
CommitsAreAtomic ==
    \A c \in ComponentIds : stock[c] + PendingSum(txns, c) = InitQty

\* The open row a direct return form matches, and the one the edit screen of
\* row tid matches (0: none).
MatchedByForm(req) ==
    LET k == RequestKey(req)
    IN First(Matching(txns, k[1], k[2], k[3], k[4], k[5]))
MatchedByEdit(tid) ==
    IF tid \notin 1..Len(txns) THEN 0
    ELSE LET k == RowKey(txns[tid])
         IN First(Matching(txns, k[1], k[2], k[3], k[4], k[5]))

\* C11: an accepted return of q, through either form, against stock s leaves
\* the component at exactly s + q, and a return is accepted only when an open
\* row is matched and 1 <= q <= qty_issued - qty_returned of that row.
ReturnIncrementsStock ==
    /\ \A req \in {r \in AddRequests : r.transaction_type = "return"} :
          LET o == AddTransaction(stock, txns, req)
              e == MatchedByForm(req)
              c == ParseInt(req.component_id)
              q == ParseInt(req.transaction_quantity)
          IN o.result = "ok" =>
                /\ e # 0
                /\ 1 <= q
                /\ q <= txns[e].qty_issued - txns[e].qty_returned
                /\ o.stock[c] = stock[c] + q
    /\ \A req \in EditRequests :
          LET o == EditTransaction(stock, txns, req)
              e == MatchedByEdit(req.transaction_id)
          IN o.result = "ok" =>
                /\ e # 0
                /\ 1 <= ParseInt(req.return_now)
                /\ ParseInt(req.return_now)
                      <= txns[e].qty_issued - txns[e].qty_returned
                /\ o.stock[txns[e].component_id]
                      = stock[txns[e].component_id] + ParseInt(req.return_now)

\* C11 witness: the direct form has just returned part of what a row had out,
\* the stock stands at what it was plus that quantity, and the edit screen
\* would take the rest.
ReturnHasActed ==
    /\ last.op = "return"
    /\ txns[last.tid].last_action = "return"
    /\ txns[last.tid].pending_qty > 0
    /\ txns[last.tid].quantity_after
          = txns[last.tid].quantity_before + txns[last.tid].transaction_quantity
    /\ stock[txns[last.tid].component_id] = txns[last.tid].quantity_after
    /\ \E req \in EditRequests : EditTransaction(stock, txns, req).result = "ok"

\* The direct return form filled in with the key of row e, quantity q and
\* notes n.
FormFor(e, q, n) ==
    [transaction_type |-> "return",
     component_id |-> Numerals[e.component_id],
     from_lab_id |-> Numerals[e.lab_id],
     from_campus |-> IF e.campus = None THEN "" ELSE e.campus,
     person_name |-> e.person_name, purpose |-> e.purpose,
     notes |-> n, transaction_quantity |-> q]

\* C12: for an open row T, the edit screen of T and the direct return form
\* filled in with T's component, lab, campus, person and purpose, given the
\* same quantity and notes, accept the same requests and leave the same stock
\* and the same rows.
EditScreenMatchesForm ==
    \A req \in EditRequests :
        (req.transaction_id \in 1..Len(txns)
            /\ txns[req.transaction_id].status \in Open) =>
        LET oe == EditTransaction(stock, txns, req)
            oa == AddTransaction(stock, txns,
                     FormFor(txns[req.transaction_id], req.return_now, req.notes))
        IN /\ (oe.result = "ok") <=> (oa.result = "ok")
           /\ oe.stock = oa.stock
           /\ oe.txns = oa.txns

\* C12 witness: the edit screen has just returned part of a row, which is
\* still open; a further return on it is accepted through both forms, and a
\* larger one refused through both.
EditReturnedPart ==
    /\ last.op = "edit"
    /\ txns[last.tid].status = "Partially Returned"
    /\ \E req \in EditRequests :
          /\ req.transaction_id = last.tid
          /\ EditTransaction(stock, txns, req).result = "ok"
          /\ AddTransaction(stock, txns,
                FormFor(txns[last.tid], req.return_now, req.notes)).result = "ok"
    /\ \E req \in EditRequests :
          /\ req.transaction_id = last.tid
          /\ EditTransaction(stock, txns, req).result = "ReturnExceedsPending"
          /\ AddTransaction(stock, txns,
                FormFor(txns[last.tid], req.return_now, req.notes)).result
                    = "ReturnExceedsPending"

\* Outcome o rewrote component c and row w (w = Len(txns) + 1: inserted it)
\* and left every other component and every other row as it was.
WroteOnly(o, c, w) ==
    /\ o.stock[c] # stock[c]
    /\ \A d \in ComponentIds \ {c} : o.stock[d] = stock[d]
    /\ Len(o.txns) = IF w > Len(txns) THEN Len(txns) + 1 ELSE Len(txns)
    /\ o.txns[w].component_id = c
    /\ w <= Len(txns) => o.txns[w] # txns[w]
    /\ \A i \in 1..Len(txns) : i # w => o.txns[i] = txns[i]

\* C13: an accepted issue or return changes the quantity of the component the
\* request names and of no other, and changes (or inserts) the one row of the
\* request's key and no other row.
OneComponentOneRow ==
    /\ \A req \in AddRequests :
          LET o == AddTransaction(stock, txns, req)
              k == RequestKey(req)
          IN o.result = "ok" =>
                WroteOnly(o, ParseInt(req.component_id),
                          IF OpenWithKey(k) # {} THEN First(OpenWithKey(k))
                          ELSE Len(txns) + 1)
    /\ \A req \in EditRequests :
          LET o == EditTransaction(stock, txns, req)
          IN o.result = "ok" =>
                WroteOnly(o, txns[req.transaction_id].component_id,
                          First(OpenWithKey(RowKey(txns[req.transaction_id]))))

\* C13 witness: two components each with a row out, the latest accepted
\* request having written the first with the second standing beside it.
WroteBesideOthers ==
    /\ Len(txns) = 2
    /\ txns[1].component_id # txns[2].component_id
    /\ last.op \in {"issue", "return"}
    /\ last.tid = 1
    /\ txns[2].status \in Open
    /\ \A c \in ComponentIds : stock[c] < InitQty

\* C14: a return with notes n leaves the row's notes as they were, followed by
\* a newline and "Return: n"; a return without notes leaves them as they
\* were; an issue merged into an open row puts its notes in place of the old
\* ones when it has any and otherwise keeps the old ones.
NotesAppendedOrKept ==
    /\ \A req \in NotesAddRequests :
          LET o == AddTransaction(stock, txns, req)
              e == First(OpenWithKey(RequestKey(req)))
          IN (o.result = "ok" /\ e # 0) =>
                o.txns[e].notes =
                    IF req.notes = "" THEN txns[e].notes
                    ELSE IF req.transaction_type = "return"
                    THEN txns[e].notes \o "\n" \o "Return: " \o req.notes
                    ELSE req.notes
    /\ \A req \in NotesEditRequests :
          LET o == EditTransaction(stock, txns, req)
              e == MatchedByEdit(req.transaction_id)
          IN o.result = "ok" =>
                o.txns[e].notes =
                    IF req.notes = "" THEN txns[e].notes
                    ELSE txns[e].notes \o "\n" \o "Return: " \o req.notes

\* C14 witness: a row issued with notes has had a return with notes, is still
\* open, and an issue with notes and one without would both merge into it.
NotesGrew ==
    /\ last.op \in {"return", "edit"}
    /\ txns[last.tid].notes = "ok\nReturn: ok"
    /\ txns[last.tid].status \in Open
    /\ \A n \in {"", "no"} :
          \E req \in NotesAddRequests :
              /\ req.transaction_type = "issue"
              /\ req.notes = n
              /\ AddTransaction(stock, txns, req).result = "ok"

\* C15: with requests served one at a time and no direct edit of a
\* component, each component's stock plus the pending_qty of all its rows
\* stays what it was at the start, whatever issues and returns are accepted
\* or refused.
StockConserved ==
    \A c \in ComponentIds :
        stock[c] + PendingSum(txns, c)
            = base.stock[c] + PendingSum(base.txns, c)

\* C15 witness: a component with a row returned in full, another row still
\* out after a merged issue, and an issue that would be refused.
LentReturnedAndLentAgain ==
    \E i, j \in 1..Len(txns) :
        /\ txns[i].component_id = txns[j].component_id
        /\ txns[i].status = "Completed"
        /\ txns[j].pending_qty > 0
        /\ txns[j].qty_issued > txns[j].transaction_quantity
        /\ PendingSum(txns, txns[i].component_id) > 0
        /\ \E req \in IssueRequests :
              /\ ParseInt(req.component_id) = txns[i].component_id
              /\ AddTransaction(stock, txns, req).result = "InsufficientStock"

\* C16: a return sent through the edit screen of row T leaves every row but T
\* as it was, and leaves every row as it was when T is Completed.
EditWritesOnlyItsRow ==
    \A req \in EditRequests :
        req.transaction_id \in 1..Len(txns) =>
            LET o == EditTransaction(stock, txns, req)
            IN /\ \A i \in 1..Len(txns) :
                     i # req.transaction_id => o.txns[i] = txns[i]
               /\ txns[req.transaction_id].status = "Completed"
                     => o.txns = txns

\* C17: a row is Issued or Partially Returned exactly when qty_issued -
\* qty_returned > 0 and Completed exactly when it is 0; so no request, through
\* either form, is answered "no pending quantity left", and an issue merged
\* into an open row never leaves it Completed.
OpenIffPending ==
    /\ \A i \in 1..Len(txns) :
          LET pending == txns[i].qty_issued - txns[i].qty_returned
          IN /\ txns[i].status \in Open \cup {"Completed"}
             /\ txns[i].status \in Open <=> pending > 0
             /\ txns[i].status = "Completed" <=> pending = 0
    /\ \A req \in AddRequests :
          LET o == AddTransaction(stock, txns, req)
              e == First(OpenWithKey(RequestKey(req)))
          IN /\ o.result # "NothingPendingToReturn"
             /\ (o.result = "ok" /\ req.transaction_type = "issue" /\ e # 0)
                   => o.txns[e].status # "Completed"
    /\ \A req \in EditRequests :
          EditTransaction(stock, txns, req).result # "NothingPendingToReturn"

\* C17 witness: beside a Completed row, an issue has just been merged into a
\* row that had been returned in part.
MergedBesideCompleted ==
    /\ last.op = "issue"
    /\ txns[last.tid].status = "Partially Returned"
    /\ txns[last.tid].qty_issued > txns[last.tid].transaction_quantity
    /\ \E i \in 1..Len(txns) :
          txns[i].status = "Completed" /\ txns[i].qty_issued = txns[i].qty_returned

\* C18: every component's quantity is at least 0, whatever components are
\* created or edited and whatever is issued or returned.
QuantityNeverNegative ==
    \A c \in DOMAIN stock : stock[c] >= 0
====
